---- MODULE Spec2Model ----
(***************************************************************************)
(* Model of the SDL audio output service of shadPS4                        *)
(* (src/src/audio_core/sdl_audio.cpp): a fixed table of output ports       *)
(* guarded by one reader-writer mutex, the four operations AudioOutOpen,   *)
(* AudioOutOutput, AudioOutSetVolume and AudioOutGetStatus, and the SDL    *)
(* audio streams they drive; and of the trophy notification overlay        *)
(* (src/src/core/libraries/np_trophy/trophy_ui.cpp): the trophy on display *)
(* and the queue of the trophies waiting for it.                           *)
(***************************************************************************)
EXTENDS Integers, Sequences, FiniteSets, TLC

(***************************************************************************)
(* Bounds of the model.                                                    *)
(***************************************************************************)
\* portsOut.size(): the number of slots of the port table.
Capacity == 2
\* The trophies awarded in a run.
MaxTrophies == 3
\* The longest time a trophy stays on display, in units of the shortest frame time.
MaxTimer == 2

(***************************************************************************)
(* Program constants.                                                      *)
(***************************************************************************)
AUDIO_STREAM_BUFFER_THRESHOLD == 65536
\* 0x80260003 as an s32 (core/libraries/error_codes.h)
ORBIS_AUDIO_OUT_ERROR_INVALID_PORT == -2144993277
ORBIS_OK == 0
\* The bool results of AudioOutSetVolume and AudioOutGetStatus, as the integers the
\* C++ values convert to, so that ret holds values of one kind.
true == 1
false == 0
\* unity gain (core/libraries/audio/audioout.h)
SCE_AUDIO_OUT_VOLUME_0DB == 32768

\* The guest threads calling into the service: two, so that any two calls can overlap.
Threads == {"T1", "T2"}
\* The caller of the single-caller specification.
MainThread == {"T1"}
Slots == 0..(Capacity - 1)
\* Every Open call beyond Capacity + 1 repeats the exhaustion case.
MaxOpens == Capacity + 1

\* OrbisAudioOutParamFormat, the eight values AudioOutOpen's switch accepts.
Formats ==
    {"S16_MONO", "FLOAT_MONO", "S16_STEREO", "FLOAT_STEREO",
     "S16_8CH", "FLOAT_8CH", "S16_8CH_STD", "FLOAT_8CH_STD"}

VARIABLES
    portsOut,   \* the port table: slot index -> PortOut
    m_mutex,    \* std::shared_mutex: [writer, readers]
    sdl,        \* the SDL audio streams opened so far: stream id -> state
    pc,         \* per thread: where it is in its call; "idle" between calls
    call,       \* per thread: the operation and the arguments of its current or last call
    local,      \* per thread: the locals and out-parameters of its current or last call
    ret,        \* per thread: the value its last call returned
    openLog,    \* the results of the AudioOutOpen calls, in the order they returned
    current_trophy_ui,  \* std::optional<TrophyUI>: <<>> or <<the TrophyUI on display>>
    trophy_queue,       \* std::queue<TrophyInfo>: the trophies waiting for the display
    queueMtx,           \* std::mutex: the thread that holds it, or "none"
    trophyPc,           \* where the game thread and the render thread are in their calls
    adding,             \* the argument of the AddTrophyToQueue call under way
    awarded,            \* the trophies AddTrophyToQueue was called with, in order
    displayed           \* the trophies put on display, in order

audioVars == <<portsOut, m_mutex, sdl, pc, call, local, ret, openLog>>
trophyVars ==
    <<current_trophy_ui, trophy_queue, queueMtx, trophyPc, adding, awarded, displayed>>
vars ==
    <<portsOut, m_mutex, sdl, pc, call, local, ret, openLog,
      current_trophy_ui, trophy_queue, queueMtx, trophyPc, adding, awarded, displayed>>

(***************************************************************************)
(* Pure helpers.                                                           *)
(***************************************************************************)
\* bool SDLAudio::isValidHandle(s32 handle) const
isValidHandle(handle) == handle >= 1 /\ handle <= Capacity

\* The switch of AudioOutOpen: format -> SDL sample format.
sampleFormat(format) ==
    CASE format = "S16_MONO" -> "SDL_AUDIO_S16"
      [] format = "FLOAT_MONO" -> "SDL_AUDIO_F32"
      [] format = "S16_STEREO" -> "SDL_AUDIO_S16"
      [] format = "FLOAT_STEREO" -> "SDL_AUDIO_F32"
      [] format = "S16_8CH" -> "SDL_AUDIO_S16"
      [] format = "FLOAT_8CH" -> "SDL_AUDIO_F32"
      [] format = "S16_8CH_STD" -> "SDL_AUDIO_S16"
      [] format = "FLOAT_8CH_STD" -> "SDL_AUDIO_F32"

\* The switch of AudioOutOpen: format -> port.channels_num.
channels_num(format) ==
    CASE format = "S16_MONO" -> 1
      [] format = "FLOAT_MONO" -> 1
      [] format = "S16_STEREO" -> 2
      [] format = "FLOAT_STEREO" -> 2
      [] format = "S16_8CH" -> 8
      [] format = "FLOAT_8CH" -> 8
      [] format = "S16_8CH_STD" -> 8
      [] format = "FLOAT_8CH_STD" -> 8

sample_size_AlwaysTwo(format) == 2
\* The switch of AudioOutOpen: format -> port.sample_size.
sample_size(format) ==
    CASE format = "S16_MONO" -> 2
      [] format = "FLOAT_MONO" -> 4
      [] format = "S16_STEREO" -> 2
      [] format = "FLOAT_STEREO" -> 4
      [] format = "S16_8CH" -> 2
      [] format = "FLOAT_8CH" -> 4
      [] format = "S16_8CH_STD" -> 2
      [] format = "FLOAT_8CH_STD" -> 4

InitVolume_SkipsLast(volume, n) ==
    [i \in 0..7 |-> IF i < n - 1 THEN SCE_AUDIO_OUT_VOLUME_0DB ELSE volume[i]]
\* The volume loop of AudioOutOpen: channels 0..n-1 get unity gain, the rest keep their value.
InitVolume(volume, n) ==
    [i \in 0..7 |-> IF i < n THEN SCE_AUDIO_OUT_VOLUME_0DB ELSE volume[i]]

\* The first free slot of the table, as the scan of AudioOutOpen finds it.
FreeSlots(ports) == {id \in Slots : ~ports[id].isOpen}
FirstFree_Last(ports) == CHOOSE id \in FreeSlots(ports) : \A other \in FreeSlots(ports) : id >= other
FirstFree(ports) == CHOOSE id \in FreeSlots(ports) : \A other \in FreeSlots(ports) : id <= other

\* PortOut as the table holds it before any Open.
FreePort ==
    [isOpen |-> FALSE, type |-> 0, samples_num |-> 0, freq |-> 0, format |-> "none",
     channels_num |-> 0, sample_size |-> 0, volume |-> [i \in 0..7 |-> 0], stream |-> 0]

\* The locals of a call that has not run yet.
NoLocal ==
    [id |-> 0, result |-> FALSE, puts |-> 0, avail |-> 0,
     outType |-> <<>>, outChannels |-> <<>>]

NoCall == [op |-> "none"]

Init ==
    /\ portsOut = [id \in Slots |-> FreePort]
    /\ m_mutex = [writer |-> "none", readers |-> {}]
    /\ sdl = <<>>
    /\ pc = [t \in Threads |-> "idle"]
    /\ call = [t \in Threads |-> NoCall]
    /\ local = [t \in Threads |-> NoLocal]
    /\ ret = [t \in Threads |-> 0]
    /\ openLog = <<>>
    /\ current_trophy_ui = <<>>
    /\ trophy_queue = <<>>
    /\ queueMtx = "none"
    /\ trophyPc = [game |-> "idle", render |-> "idle"]
    /\ adding = "none"
    /\ awarded = <<>>
    /\ displayed = <<>>

\* Thread t enters the call c: its locals are fresh.
Enter(t, c, at) ==
    /\ pc[t] = "idle"
    /\ pc' = [pc EXCEPT ![t] = at]
    /\ call' = [call EXCEPT ![t] = c]
    /\ local' = [local EXCEPT ![t] = NoLocal]
    /\ ret' = [ret EXCEPT ![t] = 0]

\* Thread t returns value from the call it is in.
Return(t, value) ==
    /\ pc' = [pc EXCEPT ![t] = "idle"]
    /\ ret' = [ret EXCEPT ![t] = value]

\* Thread t enters the call c and returns value from it at once.
EnterAndReturn(t, c, value) ==
    /\ pc[t] = "idle"
    /\ call' = [call EXCEPT ![t] = c]
    /\ local' = [local EXCEPT ![t] = NoLocal]
    /\ ret' = [ret EXCEPT ![t] = value]
    /\ UNCHANGED pc

(***************************************************************************)
(* std::shared_mutex.                                                      *)
(***************************************************************************)
CanLockUnique == m_mutex.writer = "none" /\ m_mutex.readers = {}
CanLockShared_IgnoresWriter == TRUE
CanLockShared == m_mutex.writer = "none"
LockUnique(t) == [m_mutex EXCEPT !.writer = t]
LockShared(t) == [m_mutex EXCEPT !.readers = @ \cup {t}]
UnlockUnique == [m_mutex EXCEPT !.writer = "none"]
UnlockShared_KeepsLock(t) == m_mutex
UnlockShared(t) == [m_mutex EXCEPT !.readers = @ \ {t}]

(***************************************************************************)
(* AudioOutOpen.                                                           *)
(***************************************************************************)
\* The Open calls made so far: those that returned and those under way.
OpensIssued ==
    Len(openLog) + Cardinality({t \in Threads : call[t].op = "Open" /\ pc[t] # "idle"})

\* The call: the thread arrives at std::unique_lock lock{m_mutex}.
AudioOutOpen_Call(t, type, samples_num, freq, format) ==
    /\ OpensIssued < MaxOpens
    /\ Enter(t, [op |-> "Open", type |-> type, samples_num |-> samples_num,
                 freq |-> freq, format |-> format], "open_lock")
    /\ UNCHANGED <<portsOut, m_mutex, sdl, openLog>>
    /\ UNCHANGED trophyVars

\* What Open writes into the slot it takes, up to and with the volume loop.
OpenedPort(port, c) ==
    [port EXCEPT !.isOpen = TRUE,
                 !.type = c.type,
                 !.samples_num = c.samples_num,
                 !.freq = c.freq,
                 !.format = c.format,
                 !.channels_num = channels_num(c.format),
                 !.sample_size = sample_size(c.format),
                 !.volume = InitVolume(port.volume, channels_num(c.format))]

\* std::unique_lock lock{m_mutex}, the scan for a free slot and the initialisation of the
\* slot found; return -1 when all are used.
AudioOutOpen_Scan(t) ==
    /\ pc[t] = "open_lock"
    /\ CanLockUnique
    /\ IF FreeSlots(portsOut) # {}
       THEN LET id == FirstFree(portsOut) IN
            /\ portsOut' = [portsOut EXCEPT ![id] = OpenedPort(portsOut[id], call[t])]
            /\ local' = [local EXCEPT ![t].id = id]
            /\ pc' = [pc EXCEPT ![t] = "open_stream"]
            /\ m_mutex' = LockUnique(t)
            /\ UNCHANGED <<ret, openLog>>
       ELSE /\ Return(t, -1)
            /\ openLog' = Append(openLog, [ret |-> -1, stream |-> "none"])
            /\ UNCHANGED <<portsOut, m_mutex, local>>
    /\ UNCHANGED <<sdl, call>>
    /\ UNCHANGED trophyVars

\* return id + 1: the handle of slot id.
HandleOf_ZeroBased(id) == id
HandleOf(id) == id + 1

\* What a failed SDL_OpenAudioDeviceStream leaves in the slot: port.stream = NULL.
StreamFailed(port) == [port EXCEPT !.stream = 0]

\* SDL_OpenAudioDeviceStream(SDL_AUDIO_DEVICE_DEFAULT_PLAYBACK, &fmt, NULL, NULL) when it
\* succeeds: a new stream of the given format, empty, its device paused.
SDL_OpenAudioDeviceStream(format, channels, freq) ==
    [format |-> format, channels |-> channels, freq |-> freq, queued |-> 0, resumed |-> 0]

SDL_ResumeAudioDevice_Skipped(stream) == stream
\* SDL_ResumeAudioDevice(SDL_GetAudioStreamDevice(stream)): the stream's device plays.
SDL_ResumeAudioDevice(stream) == [stream EXCEPT !.resumed = @ + 1]

\* SDL_OpenAudioDeviceStream: NULL and return -1, or a new stream, SDL_ResumeAudioDevice on
\* it and return id + 1.
AudioOutOpen_Stream(t, opened) ==
    /\ pc[t] = "open_stream"
    /\ LET id == local[t].id
           port == portsOut[id]
       IN IF opened
          THEN /\ sdl' = Append(sdl, SDL_ResumeAudioDevice(
                                         SDL_OpenAudioDeviceStream(sampleFormat(port.format),
                                                                   port.channels_num,
                                                                   call[t].freq)))
               /\ portsOut' = [portsOut EXCEPT ![id].stream = Len(sdl) + 1]
               /\ Return(t, HandleOf(id))
               /\ openLog' = Append(openLog, [ret |-> HandleOf(id), stream |-> "opened"])
          ELSE /\ portsOut' = [portsOut EXCEPT ![id] = StreamFailed(port)]
               /\ Return(t, -1)
               /\ openLog' = Append(openLog, [ret |-> -1, stream |-> "failed"])
               /\ UNCHANGED sdl
    /\ m_mutex' = UnlockUnique
    /\ UNCHANGED <<call, local>>
    /\ UNCHANGED trophyVars

(***************************************************************************)
(* AudioOutOutput.                                                         *)
(***************************************************************************)
data_size_NoChannels(port) == port.samples_num * port.sample_size
\* const size_t data_size = port.samples_num * port.sample_size * port.channels_num
\* (the callers' samples_num keep the product far below the width of the u32 arithmetic)
data_size(port) == port.samples_num * port.sample_size * port.channels_num

MustWait_Always(avail) == TRUE
MustWait_Reversed(avail) == avail < AUDIO_STREAM_BUFFER_THRESHOLD
\* The condition of the wait loop: SDL_GetAudioStreamAvailable(...) > AUDIO_STREAM_BUFFER_THRESHOLD
MustWait(avail) == avail > AUDIO_STREAM_BUFFER_THRESHOLD

\* SDL_GetAudioStreamAvailable: the bytes queued on the stream, -1 for a NULL stream.
SDL_GetAudioStreamAvailable(s) == IF s = 0 THEN -1 ELSE sdl[s].queued

OutputEntry_NullCheckFirst(handle, ptr) ==
    IF ptr = "nullptr" THEN <<"return", 0>>
    ELSE IF ~isValidHandle(handle) THEN <<"return", ORBIS_AUDIO_OUT_ERROR_INVALID_PORT>>
    ELSE <<"lock", 0>>
OutputEntry_NoNullCheck(handle, ptr) ==
    IF ~isValidHandle(handle) THEN <<"return", ORBIS_AUDIO_OUT_ERROR_INVALID_PORT>>
    ELSE <<"lock", 0>>
\* The checks made before the lock: the range check, then the null check.
\* "lock" when both pass, otherwise the value returned.
OutputEntry(handle, ptr) ==
    IF ~isValidHandle(handle) THEN <<"return", ORBIS_AUDIO_OUT_ERROR_INVALID_PORT>>
    ELSE IF ptr = "nullptr" THEN <<"return", 0>>
    ELSE <<"lock", 0>>

\* The call, up to std::shared_lock lock{m_mutex}.
AudioOutOutput_Call(t, handle, ptr) ==
    /\ LET c == [op |-> "Output", handle |-> handle, ptr |-> ptr]
           entry == OutputEntry(handle, ptr)
       IN IF entry[1] = "return"
          THEN EnterAndReturn(t, c, entry[2])
          ELSE Enter(t, c, "out_lock")
    /\ UNCHANGED <<portsOut, m_mutex, sdl, openLog>>
    /\ UNCHANGED trophyVars

\* std::shared_lock lock{m_mutex} and the isOpen check; then
\* SDL_PutAudioStreamData(port.stream, ptr, data_size): the stream takes the bytes or refuses
\* them; a NULL stream refuses them.
AudioOutOutput_Put(t, accepted) ==
    /\ pc[t] = "out_lock"
    /\ CanLockShared
    /\ LET port == portsOut[call[t].handle - 1]
           s == port.stream
       IN IF ~port.isOpen
          THEN /\ Return(t, ORBIS_AUDIO_OUT_ERROR_INVALID_PORT)
               /\ UNCHANGED <<m_mutex, sdl, local>>
          ELSE /\ m_mutex' = LockShared(t)
               /\ pc' = [pc EXCEPT ![t] = "out_wait"]
               /\ sdl' = IF s # 0 /\ accepted
                         THEN [sdl EXCEPT ![s].queued = @ + data_size(port)]
                         ELSE sdl
               /\ local' = [local EXCEPT ![t].result = (s # 0 /\ accepted), ![t].puts = @ + 1]
               /\ UNCHANGED ret
    /\ UNCHANGED <<portsOut, call, openLog>>
    /\ UNCHANGED trophyVars

\* One turn of the wait loop: poll the stream; SDL_Delay(0) and poll again, or return.
AudioOutOutput_Wait(t) ==
    /\ pc[t] = "out_wait"
    /\ LET avail == SDL_GetAudioStreamAvailable(portsOut[call[t].handle - 1].stream) IN
       /\ local' = [local EXCEPT ![t].avail = avail]
       /\ IF MustWait(avail)
          THEN UNCHANGED <<pc, ret, m_mutex>>
          ELSE /\ Return(t, IF local[t].result THEN ORBIS_OK ELSE -1)
               /\ m_mutex' = UnlockShared(t)
    /\ UNCHANGED <<portsOut, sdl, call, openLog>>
    /\ UNCHANGED trophyVars

\* The levels the playing device drains a stream to: empty, and one byte above the threshold.
DrainLevels == {0, AUDIO_STREAM_BUFFER_THRESHOLD + 1}

\* The audio device plays: a resumed stream's queued bytes go down.
SDL_DevicePlays(s, level) ==
    /\ s \in 1..Len(sdl)
    /\ sdl[s].resumed > 0
    /\ level < sdl[s].queued
    /\ sdl' = [sdl EXCEPT ![s].queued = level]
    /\ UNCHANGED <<portsOut, m_mutex, pc, call, local, ret, openLog>>
    /\ UNCHANGED trophyVars

(***************************************************************************)
(* AudioOutSetVolume.                                                      *)
(***************************************************************************)
src_index_NoRemap(format, i) == i
src_index_RemapsEvery8CH(format, i) ==
    IF format \in {"FLOAT_8CH_STD", "S16_8CH_STD", "FLOAT_8CH", "S16_8CH"}
    THEN CASE i = 4 -> 6
           [] i = 5 -> 7
           [] i = 6 -> 4
           [] i = 7 -> 5
           [] OTHER -> i
    ELSE i
\* The switch of the volume loop: the index into the caller's array for channel i.
src_index(format, i) ==
    IF format = "FLOAT_8CH_STD" \/ format = "S16_8CH_STD"
    THEN CASE i = 4 -> 6
           [] i = 5 -> 7
           [] i = 6 -> 4
           [] i = 7 -> 5
           [] OTHER -> i
    ELSE i

\* bitflag & 1u after i turns of bitflag >>= 1u.
BitSet(bitflag, i) == (bitflag \div (2 ^ i)) % 2 = 1

VolumeLoop_AllEight(port, bitflag, volume) ==
    [i \in 0..7 |->
        IF BitSet(bitflag, i) THEN volume[src_index(port.format, i)] ELSE port.volume[i]]
\* for (int i = 0; i < port.channels_num; ++i, bitflag >>= 1u): the port's volumes after the loop.
VolumeLoop(port, bitflag, volume) ==
    [i \in 0..7 |->
        IF i < port.channels_num /\ BitSet(bitflag, i)
        THEN volume[src_index(port.format, i)]
        ELSE port.volume[i]]

\* The call, up to std::shared_lock lock{m_mutex}: the range check.
AudioOutSetVolume_Call(t, handle, bitflag, volume) ==
    /\ LET c == [op |-> "SetVolume", handle |-> handle, bitflag |-> bitflag, volume |-> volume]
       IN IF ~isValidHandle(handle)
          THEN EnterAndReturn(t, c, false)
          ELSE Enter(t, c, "vol_lock")
    /\ UNCHANGED <<portsOut, m_mutex, sdl, openLog>>
    /\ UNCHANGED trophyVars

\* std::shared_lock lock{m_mutex}, the isOpen check, the volume loop and return true.
AudioOutSetVolume_Loop(t) ==
    /\ pc[t] = "vol_lock"
    /\ CanLockShared
    /\ LET id == call[t].handle - 1
           port == portsOut[id]
       IN IF ~port.isOpen
          THEN /\ Return(t, false)
               /\ UNCHANGED portsOut
          ELSE /\ portsOut' = [portsOut EXCEPT ![id].volume =
                                   VolumeLoop(port, call[t].bitflag, call[t].volume)]
               /\ Return(t, true)
    /\ UNCHANGED <<m_mutex, sdl, call, local, openLog>>
    /\ UNCHANGED trophyVars

(***************************************************************************)
(* AudioOutGetStatus.                                                      *)
(***************************************************************************)
\* The call, up to std::shared_lock lock{m_mutex}: the range check.
AudioOutGetStatus_Call(t, handle) ==
    /\ LET c == [op |-> "GetStatus", handle |-> handle]
       IN IF ~isValidHandle(handle)
          THEN EnterAndReturn(t, c, false)
          ELSE Enter(t, c, "st_lock")
    /\ UNCHANGED <<portsOut, m_mutex, sdl, openLog>>
    /\ UNCHANGED trophyVars

\* std::shared_lock lock{m_mutex}; *type = port.type; *channels_num = port.channels_num; return true
AudioOutGetStatus_Read(t) ==
    /\ pc[t] = "st_lock"
    /\ CanLockShared
    /\ LET port == portsOut[call[t].handle - 1] IN
       local' = [local EXCEPT ![t].outType = <<port.type>>,
                              ![t].outChannels = <<port.channels_num>>]
    /\ Return(t, true)
    /\ UNCHANGED <<portsOut, m_mutex, sdl, call, openLog>>
    /\ UNCHANGED trophyVars

(***************************************************************************)
(* The service under concurrent callers.                                   *)
(***************************************************************************)
\* Handles: zero, every slot's handle, one past the range.
Handles == 0..(Capacity + 1)
\* The callers' buffers hold 16384 frames: 65536 bytes of mono float samples.
ConcFormats == {"FLOAT_MONO"}
\* Channel bitmask 0b00000010: channel 1, which a mono port does not have.
ConcBitflags == {2}
\* The caller's volume array, a different value at every index.
Volumes == {[i \in 0..7 |-> 100 + i]}

Next ==
    \/ \E t \in Threads :
        \/ \E format \in ConcFormats : AudioOutOpen_Call(t, 3, 16384, 48000, format)
        \/ AudioOutOpen_Scan(t)
        \/ \E opened \in BOOLEAN : AudioOutOpen_Stream(t, opened)
        \/ \E handle \in Handles, ptr \in {"nullptr", "buf"} :
               AudioOutOutput_Call(t, handle, ptr)
        \/ \E accepted \in BOOLEAN : AudioOutOutput_Put(t, accepted)
        \/ AudioOutOutput_Wait(t)
        \/ \E handle \in Handles, bitflag \in ConcBitflags, volume \in Volumes :
               AudioOutSetVolume_Call(t, handle, bitflag, volume)
        \/ AudioOutSetVolume_Loop(t)
        \/ \E handle \in Handles : AudioOutGetStatus_Call(t, handle)
        \/ AudioOutGetStatus_Read(t)
    \/ \E s \in 1..Capacity, level \in DrainLevels : SDL_DevicePlays(s, level)

Spec == Init /\ [][Next]_vars

(***************************************************************************)
(* Open, SetVolume and GetStatus under one caller, with every format and   *)
(* several channel masks. Output leaves the port table alone and is left   *)
(* to the specification above.                                             *)
(***************************************************************************)
\* Handles: negative, zero, every slot's handle, one past the range.
AllHandles == (-1)..(Capacity + 1)
\* The first Open of a run takes port type 3 and any of the eight formats, the later ones
\* port type 5 and 16-bit stereo.
OpenFormats == IF OpensIssued = 0 THEN Formats ELSE {"S16_STEREO"}
Types == IF OpensIssued = 0 THEN {3} ELSE {5}
\* Channel bitmasks: 0b11110000, 0b100000101 (a bit beyond the eighth channel), 0b11111111.
Bitflags == {240, 261, 255}

NextFormats ==
    \E t \in MainThread :
        \/ \E type \in Types, format \in OpenFormats :
               AudioOutOpen_Call(t, type, 16384, 48000, format)
        \/ AudioOutOpen_Scan(t)
        \/ \E opened \in BOOLEAN : AudioOutOpen_Stream(t, opened)
        \/ \E handle \in AllHandles, bitflag \in Bitflags, volume \in Volumes :
               AudioOutSetVolume_Call(t, handle, bitflag, volume)
        \/ AudioOutSetVolume_Loop(t)
        \/ \E handle \in AllHandles : AudioOutGetStatus_Call(t, handle)
        \/ AudioOutGetStatus_Read(t)

SpecFormats == Init /\ [][NextFormats]_vars

(***************************************************************************)
(* Open and Output under one caller, with ports of different buffer sizes, *)
(* and the device playing.                                                 *)
(***************************************************************************)
\* The first Open of a run takes 8192 frames of any of the eight formats (16384 bytes of
\* 16-bit mono up to 262144 bytes of 8-channel float), the later ones 16384 frames of mono
\* float (65536 bytes).
OutputFormats == IF OpensIssued = 0 THEN Formats ELSE {"FLOAT_MONO"}
OutputSamples == IF OpensIssued = 0 THEN {8192} ELSE {16384}

NextOutput ==
    \/ \E t \in MainThread :
        \/ \E samples_num \in OutputSamples, format \in OutputFormats :
               AudioOutOpen_Call(t, 3, samples_num, 48000, format)
        \/ AudioOutOpen_Scan(t)
        \/ \E opened \in BOOLEAN : AudioOutOpen_Stream(t, opened)
        \/ \E handle \in AllHandles, ptr \in {"nullptr", "buf"} :
               AudioOutOutput_Call(t, handle, ptr)
        \/ \E accepted \in BOOLEAN : AudioOutOutput_Put(t, accepted)
        \/ AudioOutOutput_Wait(t)
    \/ \E s \in 1..Capacity, level \in DrainLevels : SDL_DevicePlays(s, level)

SpecOutput == Init /\ [][NextOutput]_vars

(***************************************************************************)
(* The service under concurrent callers that keep to the contract of       *)
(* Output (one producer per handle), with the scheduling stated: a thread  *)
(* inside a call goes on running, a thread blocked at the mutex gets it if *)
(* it is free again and again, and a resumed device plays its stream out.  *)
(* No thread need ever make a call.                                        *)
(***************************************************************************)
\* The handle a thread submits data on: each handle has one producer.
OwnHandle(t) == IF t = "T1" THEN 1 ELSE 2
\* Handles in range: the first slot's and the last slot's.
SlotHandles == {1, Capacity}

NextFair ==
    \/ \E t \in Threads :
        \/ \E format \in ConcFormats : AudioOutOpen_Call(t, 3, 16384, 48000, format)
        \/ AudioOutOpen_Scan(t)
        \/ \E opened \in BOOLEAN : AudioOutOpen_Stream(t, opened)
        \/ AudioOutOutput_Call(t, OwnHandle(t), "buf")
        \/ \E accepted \in BOOLEAN : AudioOutOutput_Put(t, accepted)
        \/ AudioOutOutput_Wait(t)
        \/ \E handle \in SlotHandles, bitflag \in ConcBitflags, volume \in Volumes :
               AudioOutSetVolume_Call(t, handle, bitflag, volume)
        \/ AudioOutSetVolume_Loop(t)
        \/ \E handle \in SlotHandles : AudioOutGetStatus_Call(t, handle)
        \/ AudioOutGetStatus_Read(t)
    \/ \E s \in 1..Capacity, level \in DrainLevels : SDL_DevicePlays(s, level)

Fairness ==
    /\ \A t \in Threads :
        /\ SF_pc(AudioOutOpen_Scan(t))
        /\ WF_pc(\E opened \in BOOLEAN : AudioOutOpen_Stream(t, opened))
        /\ SF_pc(\E accepted \in BOOLEAN : AudioOutOutput_Put(t, accepted))
        /\ WF_pc(AudioOutOutput_Wait(t))
        /\ SF_pc(AudioOutSetVolume_Loop(t))
        /\ SF_pc(AudioOutGetStatus_Read(t))
    /\ \A s \in 1..Capacity : WF_sdl(SDL_DevicePlays(s, 0))

SpecFair == Init /\ [][NextFair]_vars /\ Fairness

(***************************************************************************)
(* The trophy notification overlay: AddTrophyToQueue on the game thread,   *)
(* TrophyUI::Draw of the trophy on display on the render thread, once a    *)
(* frame.                                                                  *)
(***************************************************************************)
\* The names of the trophies; two trophies may bear the same name.
TrophyNames == {"gold", "silver"}
\* io.DeltaTime: the time a frame took.
DeltaTimes == 1..MaxTimer
\* The value trophy_timer starts with is set in trophy_ui.h: any value up to MaxTimer.
TimerStarts == 0..MaxTimer

\* TrophyUI::TrophyUI(trophyIconPath, trophyName)
TrophyUI(trophyName, timer) == [trophy_name |-> trophyName, trophy_timer |-> timer]

\* current_trophy_ui.has_value()
has_value == current_trophy_ui # <<>>

front_Newest(queue) == queue[Len(queue)]
\* trophy_queue.front()
front(queue) == Head(queue)

\* trophy_queue.pop()
pop(queue) == Tail(queue)

\* The call and std::lock_guard<std::mutex> lock(queueMtx) of AddTrophyToQueue.
AddTrophyToQueue_Lock(trophyName) ==
    /\ trophyPc.game = "idle"
    /\ Len(awarded) < MaxTrophies
    /\ queueMtx = "none"
    /\ queueMtx' = "game"
    /\ trophyPc' = [trophyPc EXCEPT !.game = "add"]
    /\ adding' = trophyName
    /\ awarded' = Append(awarded, trophyName)
    /\ UNCHANGED <<current_trophy_ui, trophy_queue, displayed>>
    /\ UNCHANGED audioVars

\* The body of AddTrophyToQueue: push the trophy when one is on display, otherwise put it
\* on display; the lock is given back at the return.
AddTrophyToQueue_Body(timer) ==
    /\ trophyPc.game = "add"
    /\ IF has_value
       THEN /\ trophy_queue' = Append(trophy_queue, adding)
            /\ UNCHANGED <<current_trophy_ui, displayed>>
       ELSE /\ current_trophy_ui' = <<TrophyUI(adding, timer)>>
            /\ displayed' = Append(displayed, adding)
            /\ UNCHANGED trophy_queue
    /\ queueMtx' = "none"
    /\ trophyPc' = [trophyPc EXCEPT !.game = "idle"]
    /\ adding' = "none"
    /\ UNCHANGED awarded
    /\ UNCHANGED audioVars

\* TrophyUI::Draw of the trophy on display, up to the lock: trophy_timer -= io.DeltaTime;
\* if (trophy_timer <= 0) the frame goes on to the lock, otherwise Draw returns.
Draw_Timer(DeltaTime) ==
    /\ trophyPc.render = "idle"
    /\ has_value
    /\ LET trophy_timer == current_trophy_ui[1].trophy_timer - DeltaTime IN
       /\ current_trophy_ui' = <<[current_trophy_ui[1] EXCEPT !.trophy_timer = trophy_timer]>>
       /\ trophyPc' = [trophyPc EXCEPT !.render = IF trophy_timer <= 0 THEN "expired" ELSE "idle"]
    /\ UNCHANGED <<trophy_queue, queueMtx, adding, awarded, displayed>>
    /\ UNCHANGED audioVars

\* std::lock_guard<std::mutex> lock(queueMtx) of Draw.
Draw_Lock ==
    /\ trophyPc.render = "expired"
    /\ queueMtx = "none"
    /\ queueMtx' = "render"
    /\ trophyPc' = [trophyPc EXCEPT !.render = "locked"]
    /\ UNCHANGED <<current_trophy_ui, trophy_queue, adding, awarded, displayed>>
    /\ UNCHANGED audioVars

\* The locked part of Draw: the front of the queue replaces the trophy on display, or the
\* display is reset when nothing waits; the lock is given back at the return.
Draw_Body(timer) ==
    /\ trophyPc.render = "locked"
    /\ IF trophy_queue # <<>>
       THEN LET next_trophy == front(trophy_queue) IN
            /\ trophy_queue' = pop(trophy_queue)
            /\ current_trophy_ui' = <<TrophyUI(next_trophy, timer)>>
            /\ displayed' = Append(displayed, next_trophy)
       ELSE /\ current_trophy_ui' = <<>>
            /\ UNCHANGED <<trophy_queue, displayed>>
    /\ queueMtx' = "none"
    /\ trophyPc' = [trophyPc EXCEPT !.render = "idle"]
    /\ UNCHANGED <<adding, awarded>>
    /\ UNCHANGED audioVars

NextTrophy ==
    \/ \E trophyName \in TrophyNames : AddTrophyToQueue_Lock(trophyName)
    \/ \E timer \in TimerStarts : AddTrophyToQueue_Body(timer)
    \/ \E DeltaTime \in DeltaTimes : Draw_Timer(DeltaTime)
    \/ Draw_Lock
    \/ \E timer \in TimerStarts : Draw_Body(timer)

\* The render thread draws a frame after the other, a thread that waits for queueMtx gets
\* it, and a thread that holds it runs on; the game need not award anything.
FairnessTrophy ==
    /\ WF_vars(\E DeltaTime \in DeltaTimes : Draw_Timer(DeltaTime))
    /\ SF_vars(Draw_Lock)
    /\ WF_vars(\E timer \in TimerStarts : Draw_Body(timer))
    /\ WF_vars(\E timer \in TimerStarts : AddTrophyToQueue_Body(timer))

SpecTrophy == Init /\ [][NextTrophy]_vars /\ FairnessTrophy

(***************************************************************************)
(* Properties.                                                             *)
(***************************************************************************)
\* Thread t returns from a call in this step.
Returns(t) ==
    /\ pc'[t] = "idle"
    /\ <<pc[t], call[t], local[t], ret[t]>> # <<pc'[t], call'[t], local'[t], ret'[t]>>

\* Thread t is between calls, its last call being an op.
Returned(t, op) == pc[t] = "idle" /\ call[t].op = op

OpenedEntries == {i \in 1..Len(openLog) : openLog[i].ret # -1}

\* C1: from the empty table, the Open calls that succeed return pairwise distinct handles in
\* 1..Capacity, every Open after the first Capacity ones returns -1, and as long as SDL has
\* opened every stream asked of it the first Capacity Open calls all succeed, whatever the
\* order in which the callers' threads reach the table.
C1_CapacityInvariant ==
    /\ \A i \in OpenedEntries : openLog[i].ret \in 1..Capacity
    /\ \A i, j \in OpenedEntries : i # j => openLog[i].ret # openLog[j].ret
    /\ \A i \in 1..Len(openLog) : i > Capacity => openLog[i].ret = -1
    /\ (\A i \in 1..Len(openLog) : openLog[i].stream # "failed")
           => \A i \in 1..Len(openLog) : i <= Capacity => openLog[i].ret # -1

\* Capacity Open calls succeeded and one more returned -1, Open being the last call of
\* both threads.
C1_Witness ==
    /\ Len(openLog) = Capacity + 1
    /\ Cardinality(OpenedEntries) = Capacity
    /\ openLog[Capacity + 1] = [ret |-> -1, stream |-> "none"]
    /\ \A t \in Threads : Returned(t, "Open")

\* C2: an Open whose stream SDL failed to open leaves no slot taken: the slots marked open
\* are those of the Open calls that succeeded and of the Open calls still under way.
C2_FailedOpenReleasesSlot ==
    Cardinality({id \in Slots : portsOut[id].isOpen})
        = Cardinality(OpenedEntries) + Cardinality({t \in Threads : pc[t] = "open_stream"})

\* The slot a handle names is marked open.
IsOpenHandle(h) == isValidHandle(h) /\ portsOut[h - 1].isOpen

\* C3: whenever Output (given data), SetVolume or GetStatus returns, it has accepted the
\* handle (Output: anything but InvalidPort; SetVolume, GetStatus: true) if and only if the
\* handle is in 1..Capacity and its slot is open.
C3_HandleValidity ==
    [][\A t \in Threads :
          Returns(t) =>
              CASE call'[t].op = "Output" /\ call'[t].ptr = "buf" ->
                       (ret'[t] # ORBIS_AUDIO_OUT_ERROR_INVALID_PORT) <=> IsOpenHandle(call'[t].handle)
                [] call'[t].op \in {"SetVolume", "GetStatus"} ->
                       (ret'[t] = true) <=> IsOpenHandle(call'[t].handle)
                [] OTHER -> TRUE]_vars

\* C4: when GetStatus returns, either the handle is in range and its slot open, it returns
\* true and the out-parameters hold the port's type and channel count, or it returns false
\* and the out-parameters are as the caller left them.
C4_GetStatusOutputs ==
    [][\A t \in Threads :
          (Returns(t) /\ call'[t].op = "GetStatus") =>
              IF IsOpenHandle(call'[t].handle)
              THEN /\ ret'[t] = true
                   /\ local'[t].outType = <<portsOut[call'[t].handle - 1].type>>
                   /\ local'[t].outChannels = <<portsOut[call'[t].handle - 1].channels_num>>
              ELSE /\ ret'[t] = false
                   /\ local'[t].outType = <<>>
                   /\ local'[t].outChannels = <<>>]_vars

\* C5: a step of an Output call with null data and a handle in range is the whole call: it
\* returns 0, submits nothing, polls nothing, and leaves the port table, the streams and the
\* mutex as they were.
C5_OutputNullIsNoOp ==
    [][\A t \in Threads :
          (/\ <<pc[t], call[t], local[t], ret[t]>> # <<pc'[t], call'[t], local'[t], ret'[t]>>
           /\ call'[t].op = "Output"
           /\ call'[t].ptr = "nullptr"
           /\ isValidHandle(call'[t].handle))
          => /\ pc[t] = "idle" /\ pc'[t] = "idle"
             /\ ret'[t] = ORBIS_OK
             /\ local'[t] = NoLocal
             /\ UNCHANGED <<portsOut, sdl, m_mutex>>]_vars

\* An Output call with null data returned 0 on an open port while the other thread was
\* waiting inside Output on the same port.
C5_Witness ==
    \E t, u \in Threads :
        /\ Returned(t, "Output") /\ call[t].ptr = "nullptr" /\ ret[t] = ORBIS_OK
        /\ IsOpenHandle(call[t].handle) /\ portsOut[call[t].handle - 1].stream # 0
        /\ pc[u] = "out_wait" /\ call[u].handle = call[t].handle

\* C6: an Output call that has submitted its data and returned saw, at its last poll, no more
\* than AUDIO_STREAM_BUFFER_THRESHOLD bytes queued, whether the stream took the data or not.
C6_ReturnsBelowThreshold ==
    \A t \in Threads :
        (Returned(t, "Output") /\ local[t].puts > 0) => local[t].avail <= 65536

\* An Output call returned after the stream took its data, its last poll at the threshold
\* exactly, and another returned with its data refused.
C6_Witness ==
    \E t, u \in Threads :
        /\ Returned(t, "Output") /\ local[t].puts = 1 /\ local[t].result
        /\ local[t].avail = 65536 /\ ret[t] = ORBIS_OK
        /\ Returned(u, "Output") /\ local[u].puts = 1 /\ ~local[u].result /\ ret[u] = -1

\* The claimed source index of channel i on a standard 8-channel port.
StdSource(i) == CASE i = 4 -> 6 [] i = 5 -> 7 [] i = 6 -> 4 [] i = 7 -> 5 [] OTHER -> i

\* The channels a bitmask selects.
Selected(bitflag) == {i \in 0..7 : (bitflag \div (2 ^ i)) % 2 = 1}

\* C7: after SetVolume returned true on a port of format S16_8CH_STD or FLOAT_8CH_STD, every
\* selected channel i holds volumes[src(i)], src swapping 4,5 with 6,7.
C7_StandardRemap ==
    \A t \in Threads :
        (/\ Returned(t, "SetVolume") /\ ret[t] = true
         /\ portsOut[call[t].handle - 1].format \in {"S16_8CH_STD", "FLOAT_8CH_STD"})
        => \A i \in Selected(call[t].bitflag) \cap 0..7 :
               portsOut[call[t].handle - 1].volume[i] = call[t].volume[StdSource(i)]

\* SetVolume with 0b11110000 returned on a FLOAT_8CH_STD port: channels 4..7 hold the
\* caller's entries 6, 7, 4, 5 and channels 0..3 are at unity gain.
C7_Witness ==
    \E t \in Threads :
        /\ Returned(t, "SetVolume") /\ ret[t] = true /\ call[t].bitflag = 240
        /\ LET port == portsOut[call[t].handle - 1] IN
           /\ port.format = "FLOAT_8CH_STD"
           /\ port.volume[4] = call[t].volume[6] /\ port.volume[5] = call[t].volume[7]
           /\ port.volume[6] = call[t].volume[4] /\ port.volume[7] = call[t].volume[5]
           /\ call[t].volume[4] # call[t].volume[6]
           /\ \A i \in 0..3 : port.volume[i] = SCE_AUDIO_OUT_VOLUME_0DB

\* C8: after SetVolume returned true on a port of any other format, every selected channel i
\* below the port's channel count holds volumes[i].
C8_IdentityMapping ==
    \A t \in Threads :
        (/\ Returned(t, "SetVolume") /\ ret[t] = true
         /\ portsOut[call[t].handle - 1].format \notin {"S16_8CH_STD", "FLOAT_8CH_STD"})
        => LET port == portsOut[call[t].handle - 1] IN
           \A i \in Selected(call[t].bitflag) :
               i < port.channels_num => port.volume[i] = call[t].volume[i]

\* SetVolume with 0b11110000 returned on an S16_8CH port: channels 4..7 hold the caller's
\* entries 4..7.
C8_Witness ==
    \E t \in Threads :
        /\ Returned(t, "SetVolume") /\ ret[t] = true /\ call[t].bitflag = 240
        /\ LET port == portsOut[call[t].handle - 1] IN
           /\ port.format = "S16_8CH"
           /\ \A i \in 4..7 : port.volume[i] = call[t].volume[i]
           /\ \A i \in 0..3 : port.volume[i] = SCE_AUDIO_OUT_VOLUME_0DB

\* The channel count Open is to resolve each format to.
ClaimedChannels(format) ==
    CASE format \in {"S16_MONO", "FLOAT_MONO"} -> 1
      [] format \in {"S16_STEREO", "FLOAT_STEREO"} -> 2
      [] format \in {"S16_8CH", "FLOAT_8CH", "S16_8CH_STD", "FLOAT_8CH_STD"} -> 8

\* C9: when a successful Open is the caller's last call, every channel below the channel
\* count of the port it opened is at SCE_AUDIO_OUT_VOLUME_0DB.
C9_DefaultVolume ==
    \A t \in Threads :
        (Returned(t, "Open") /\ ret[t] # -1)
        => \A i \in 0..(ClaimedChannels(call[t].format) - 1) :
               portsOut[ret[t] - 1].volume[i] = 32768

\* Open returned handle 1 for a FLOAT_8CH_STD port, whose eight volumes are at unity gain.
C9_Witness ==
    \E t \in Threads :
        /\ Returned(t, "Open") /\ ret[t] = 1 /\ call[t].format = "FLOAT_8CH_STD"
        /\ \A i \in 0..7 : portsOut[0].volume[i] = SCE_AUDIO_OUT_VOLUME_0DB

\* The sample size and the wire format Open is to resolve each format to.
ClaimedSampleSize(format) ==
    IF format \in {"S16_MONO", "S16_STEREO", "S16_8CH", "S16_8CH_STD"} THEN 2 ELSE 4
ClaimedWire(format) ==
    IF format \in {"S16_MONO", "S16_STEREO", "S16_8CH", "S16_8CH_STD"}
    THEN "SDL_AUDIO_S16" ELSE "SDL_AUDIO_F32"

\* C10: every slot Open has taken holds the channel count and the sample size of the table
\* for its format, and the stream opened for it has the table's wire format and that
\* channel count.
C10_FormatResolution ==
    \A id \in Slots :
        LET port == portsOut[id] IN
        port.isOpen =>
            /\ port.format \in Formats
            /\ port.channels_num = ClaimedChannels(port.format)
            /\ port.sample_size = ClaimedSampleSize(port.format)
            /\ port.stream # 0 =>
                   /\ sdl[port.stream].format = ClaimedWire(port.format)
                   /\ sdl[port.stream].channels = ClaimedChannels(port.format)

\* A FLOAT_8CH_STD port and an S16_STEREO port are open, each with its stream.
C10_Witness ==
    /\ portsOut[0].isOpen /\ portsOut[0].format = "FLOAT_8CH_STD" /\ portsOut[0].stream # 0
    /\ portsOut[0].channels_num = 8 /\ portsOut[0].sample_size = 4
    /\ portsOut[1].isOpen /\ portsOut[1].format = "S16_STEREO" /\ portsOut[1].stream # 0

\* Thread t takes a step of a call.
Steps(t) == <<pc[t], call[t], local[t], ret[t]>> # <<pc'[t], call'[t], local'[t], ret'[t]>>

\* C11: the step in which an Open call returns a handle is the only step of the call that
\* touches SDL: it opens one stream, with the wire format and the channel count of the format
\* asked for and the caller's frequency, resumes that stream's device once and stores the
\* stream in the slot of the handle. Every other step of an Open call, the return of -1 for a
\* full table and the return of -1 for a stream SDL failed to open among them, leaves the
\* streams as they were: nothing is opened and nothing resumed.
C11_OneStreamOneResume ==
    [][\A t \in Threads :
          (Steps(t) /\ call'[t].op = "Open") =>
              IF Returns(t) /\ ret'[t] # -1
              THEN /\ sdl' = Append(sdl, [format |-> ClaimedWire(call'[t].format),
                                         channels |-> ClaimedChannels(call'[t].format),
                                         freq |-> call'[t].freq,
                                         queued |-> 0, resumed |-> 1])
                   /\ portsOut'[ret'[t] - 1].stream = Len(sdl')
              ELSE sdl' = sdl]_vars

\* Three Open calls returned: a handle with a resumed FLOAT_8CH_STD stream of 8 channels at
\* 48000 Hz, -1 for a stream SDL failed to open, and -1 for the full table; one stream exists.
C11_Witness ==
    /\ Len(openLog) = 3
    /\ {openLog[i].stream : i \in 1..3} = {"opened", "failed", "none"}
    /\ Len(sdl) = 1
    /\ sdl[1] = [format |-> "SDL_AUDIO_F32", channels |-> 8, freq |-> 48000,
                 queued |-> 0, resumed |-> 1]

\* The bytes one buffer of a port holds: frames * bytes per sample * channels, from what Open
\* recorded in the slot.
ClaimedBytes(port) ==
    port.samples_num * ClaimedSampleSize(port.format) * ClaimedChannels(port.format)

\* C12: an Output call that has data and finds its port open hands the data to SDL once: in
\* the step that submits, no stream but the port's own changes, and that stream either takes
\* exactly samples_num * sample_size * channels_num bytes (the submission is accepted) or
\* stays as it is (refused); no other step of the call changes a stream; and the call
\* returns ORBIS_OK if the one submission was accepted and -1, which is not InvalidPort, if
\* it was refused.
C12_OutputSubmitsOnce ==
    [][\A t \in Threads :
          (Steps(t) /\ call'[t].op = "Output") =>
              IF pc[t] = "out_lock" /\ pc'[t] = "out_wait"
              THEN LET port == portsOut[call[t].handle - 1]
                       s == port.stream
                   IN /\ local'[t].puts = 1
                      /\ \A o \in 1..Len(sdl) : o # s => sdl'[o] = sdl[o]
                      /\ Len(sdl') = Len(sdl)
                      /\ IF local'[t].result
                         THEN s # 0 /\ sdl'[s].queued = sdl[s].queued + ClaimedBytes(port)
                         ELSE sdl' = sdl
              ELSE /\ sdl' = sdl
                   /\ (pc[t] = "out_wait" /\ Returns(t)) =>
                          /\ local[t].puts = 1
                          /\ ret'[t] = (IF local[t].result THEN ORBIS_OK ELSE -1)
                          /\ ret'[t] # ORBIS_AUDIO_OUT_ERROR_INVALID_PORT]_vars

\* Output returned ORBIS_OK on the 8-channel float port after one submission of 262144
\* bytes, the device having played the stream down in the meantime, and the mono float port
\* holds the 65536 bytes of an earlier call.
C12_Witness ==
    \E t \in Threads :
        /\ Returned(t, "Output") /\ call[t].handle = 1 /\ call[t].ptr = "buf"
        /\ ret[t] = ORBIS_OK /\ local[t].puts = 1 /\ local[t].result
        /\ portsOut[0].format = "FLOAT_8CH" /\ portsOut[0].stream # 0
        /\ portsOut[1].format = "FLOAT_MONO" /\ portsOut[1].stream # 0
        /\ sdl[portsOut[1].stream].queued = 65536

\* C13: when an Output call returns, a handle outside 1..Capacity has given InvalidPort, with
\* data or without; otherwise null data has given 0 in the call's only step, the slot open or
\* not and the mutex never taken; otherwise the call has looked at the slot under the lock
\* and has given InvalidPort exactly if the slot is not open.
C13_ValidationOrder ==
    [][\A t \in Threads :
          (Returns(t) /\ call'[t].op = "Output") =>
              LET h == call'[t].handle IN
              IF h < 1 \/ h > Capacity
              THEN ret'[t] = ORBIS_AUDIO_OUT_ERROR_INVALID_PORT /\ pc[t] = "idle"
              ELSE IF call'[t].ptr = "nullptr"
              THEN ret'[t] = 0 /\ pc[t] = "idle" /\ m_mutex' = m_mutex
              ELSE /\ pc[t] \in {"out_lock", "out_wait"}
                   /\ (ret'[t] = ORBIS_AUDIO_OUT_ERROR_INVALID_PORT) <=> ~portsOut[h - 1].isOpen
                   /\ (pc[t] = "out_lock") <=> ~portsOut[h - 1].isOpen]_vars

\* The first slot is open and the last one free; Output with null data on the last slot's
\* handle has returned 0 and Output with null data on the handle past the table has
\* returned InvalidPort.
C13_Witness ==
    \E t, u \in Threads :
        /\ portsOut[0].isOpen /\ ~portsOut[Capacity - 1].isOpen
        /\ Returned(t, "Output") /\ call[t].handle = Capacity /\ call[t].ptr = "nullptr"
        /\ ret[t] = 0
        /\ Returned(u, "Output") /\ call[u].handle = Capacity + 1 /\ call[u].ptr = "nullptr"
        /\ ret[u] = ORBIS_AUDIO_OUT_ERROR_INVALID_PORT

\* Thread t is inside an Output call, at the lock or in the wait loop.
InOutput(t) == pc[t] \in {"out_lock", "out_wait"}

\* C14: with the scheduling of SpecFair, where the device plays every stream out, an Output
\* call that has started returns in the end; and a call leaves the wait loop only in a step
\* at which its stream holds no more than AUDIO_STREAM_BUFFER_THRESHOLD bytes: as long as
\* the stream stays above the threshold the call stays in the loop.
C14_OutputTerminates ==
    /\ \A t \in Threads : InOutput(t) ~> (pc[t] = "idle")
    /\ [][\A t \in Threads :
            (pc[t] = "out_wait" /\ pc'[t] # "out_wait") =>
                SDL_GetAudioStreamAvailable(portsOut[call[t].handle - 1].stream) <= 65536]_pc

\* A thread is in the wait loop, its last poll above the threshold, while the other thread
\* is in the wait loop on its own port.
C14_Witness ==
    \E t, u \in Threads :
        /\ t # u
        /\ pc[t] = "out_wait" /\ local[t].avail > 65536
        /\ pc[u] = "out_wait" /\ call[u].handle # call[t].handle

\* The slots of the table a step changes.
ChangedSlots == {id \in Slots : portsOut'[id] # portsOut[id]}

\* C15: the step in which an Open call gets the table either returns -1, every slot being
\* taken and none changed, or takes slot id, which was free while every slot below it was
\* taken, and changes no other slot; the step in which the call then returns changes no
\* slot but id, and a handle it returns is id + 1.
C15_FirstFit ==
    [][\A t \in Threads :
          /\ (pc[t] = "open_lock" /\ pc'[t] = "open_stream") =>
                 LET id == local'[t].id IN
                 /\ ~portsOut[id].isOpen /\ portsOut'[id].isOpen
                 /\ \A lower \in Slots : lower < id => portsOut[lower].isOpen
                 /\ ChangedSlots = {id}
          /\ (pc[t] = "open_lock" /\ pc'[t] = "idle") =>
                 /\ \A id \in Slots : portsOut[id].isOpen
                 /\ ChangedSlots = {}
                 /\ ret'[t] = -1
          /\ (pc[t] = "open_stream" /\ pc'[t] = "idle") =>
                 /\ ChangedSlots \subseteq {local[t].id}
                 /\ ret'[t] # -1 => ret'[t] = local[t].id + 1
                 /\ local'[t].id = local[t].id]_vars

\* Open has returned handle 2 for the second slot, the first slot having been taken by an
\* Open whose stream SDL failed to open, and the other thread's Open is waiting for the table.
C15_Witness ==
    \E t, u \in Threads :
        /\ Returned(t, "Open") /\ ret[t] = 2 /\ local[t].id = 1
        /\ portsOut[0].isOpen /\ portsOut[0].stream = 0
        /\ portsOut[1].isOpen /\ portsOut[1].stream # 0
        /\ pc[u] = "open_lock"

\* C16: a step of a SetVolume call leaves the streams alone and changes no slot but the
\* call's own, and that one only in the step that returns true and only in its volumes:
\* channel i keeps its volume unless i is below the port's channel count and bit i of the
\* mask is set.
C16_SetVolumeFrame ==
    [][\A t \in Threads :
          (Steps(t) /\ call'[t].op = "SetVolume") =>
              /\ sdl' = sdl
              /\ IF Returns(t) /\ ret'[t] = true
                 THEN LET id == call'[t].handle - 1
                          port == portsOut[id]
                      IN /\ ChangedSlots \subseteq {id}
                         /\ [portsOut'[id] EXCEPT !.volume = port.volume] = port
                         /\ \A i \in 0..7 :
                                (i >= port.channels_num \/ i \notin Selected(call'[t].bitflag))
                                    => portsOut'[id].volume[i] = port.volume[i]
                 ELSE ChangedSlots = {}]_vars

\* SetVolume with 0b100000101 returned true on the second port, a stereo one: its channel
\* 0 holds the caller's entry 0, its channel 1 and the channels above are as Open left them,
\* and the first port, an 8-channel one, has its volumes at unity gain.
C16_Witness ==
    \E t \in Threads :
        /\ Returned(t, "SetVolume") /\ ret[t] = true
        /\ call[t].handle = 2 /\ call[t].bitflag = 261
        /\ portsOut[1].format = "S16_STEREO"
        /\ portsOut[1].volume[0] = call[t].volume[0]
        /\ portsOut[1].volume[1] = SCE_AUDIO_OUT_VOLUME_0DB
        /\ \A i \in 2..7 : portsOut[1].volume[i] = 0
        /\ portsOut[0].channels_num = 8
        /\ \A i \in 0..7 : portsOut[0].volume[i] = SCE_AUDIO_OUT_VOLUME_0DB

\* Thread t is inside Open's scan-and-initialise sequence: it has marked a slot open and has
\* not yet opened the slot's stream.
Initialising(t) == pc[t] = "open_stream"

\* Thread t reads a slot in this step: Output, SetVolume or GetStatus passes its lock.
ReadsSlot(t) == pc[t] \in {"out_lock", "vol_lock", "st_lock"} /\ pc'[t] # pc[t]

\* C17: at most one thread is inside Open's scan-and-initialise sequence; while one is, it
\* holds the mutex as its writer, the mutex has no reader, no Output is in its wait loop,
\* and no Output, SetVolume or GetStatus reads a slot.
C17_OpenIsExclusive ==
    /\ [](\A t, u \in Threads : (Initialising(t) /\ Initialising(u)) => t = u)
    /\ [](\A t \in Threads :
             Initialising(t) =>
                 /\ m_mutex = [writer |-> t, readers |-> {}]
                 /\ \A u \in Threads : pc[u] # "out_wait")
    /\ [][\A t, u \in Threads : ReadsSlot(u) => ~Initialising(t)]_vars

\* One thread is inside Open's sequence, the second slot marked open and its stream not yet
\* opened, while the other thread stands at the lock of an Output call on that slot's handle.
C17_Witness ==
    \E t, u \in Threads :
        /\ Initialising(t) /\ local[t].id = 1
        /\ portsOut[1].isOpen /\ portsOut[1].stream = 0
        /\ pc[u] = "out_lock" /\ call[u].handle = 2

\* C18: an Output call that has passed the isOpen check, and so submits to the slot's stream
\* and polls it, has a stream that SDL opened: the slot's stream pointer is not NULL.
C18_OutputUsesOpenedStream ==
    \A t \in Threads :
        (call[t].op = "Output" /\ local[t].puts > 0)
            => portsOut[call[t].handle - 1].stream # 0

\* Thread t is inside an Open, a SetVolume or a GetStatus call.
InControlCall(t) == pc[t] \in {"open_lock", "open_stream", "vol_lock", "st_lock"}

Added == IF trophyPc.game = "add" THEN SubSeq(awarded, 1, Len(awarded) - 1) ELSE awarded

\* C20: at most one trophy is on display; trophies wait in the queue only while one is on
\* display; the trophies put on display so far followed by those in the queue are the
\* trophies added, in the order they were added; a trophy added while none is on display
\* goes on display in that call and not into the queue; the display is cleared only by
\* Draw with the timer run out and the queue empty; and every trophy added is on display in
\* the end.
C20_TrophyQueueFIFO ==
    /\ [](/\ Len(current_trophy_ui) <= 1
          /\ (trophy_queue # <<>> => current_trophy_ui # <<>>)
          /\ displayed \o trophy_queue = Added
          /\ (current_trophy_ui # <<>> =>
                 current_trophy_ui[1].trophy_name = displayed[Len(displayed)]))
    /\ [][/\ (trophyPc.game = "add" /\ trophyPc'.game = "idle" /\ current_trophy_ui = <<>>) =>
                /\ current_trophy_ui' # <<>>
                /\ current_trophy_ui'[1].trophy_name = awarded[Len(awarded)]
                /\ trophy_queue' = <<>>
          /\ (current_trophy_ui # <<>> /\ current_trophy_ui' = <<>>) =>
                /\ trophyPc.render = "locked" /\ trophyPc'.render = "idle"
                /\ current_trophy_ui[1].trophy_timer <= 0
                /\ trophy_queue = <<>>]_vars
    /\ \A i \in 1..MaxTrophies : (Len(awarded) >= i) ~> (Len(displayed) >= i)

\* Three trophies were added, the last two while the first was on display; the first two
\* have been on display in their order, the second is on display and the third waits.
C20_Witness ==
    /\ awarded = <<"gold", "silver", "gold">>
    /\ trophyPc.game = "idle"
    /\ displayed = <<"gold", "silver">>
    /\ current_trophy_ui # <<>> /\ current_trophy_ui[1].trophy_name = "silver"
    /\ trophy_queue = <<"gold">>
====
